---- MODULE Spec2Model ----
(***************************************************************************)
(* MazeExplorer: randomized backtracking maze generation (Maze) and the    *)
(* round-based multi-bot exploration protocol (ExploreManager, Bot).        *)
(* The grid is a function from <<row, col>> to a block code, bots are       *)
(* records of status and position, the task list is a sequence of           *)
(* coordinates.  Handlers of the manager are actions; the loops inside      *)
(* them (carving, the active-bot loop) advance one iteration per action     *)
(* under the control of pc.                                                 *)
(***************************************************************************)
EXTENDS Integers, Sequences, FiniteSets, TLC

(* ------------------------------ bounds --------------------------------- *)

\* largest height / width handed to set_matrix_randomly
MaxDim == 6
\* largest bot_number handed to setup_simulation (0 selects the default)
MaxBots == 3
\* on_step_click is not taken once the step counter has reached this value
MaxStep == 40
\* the history variables record the setup and this many rounds after it
MaxReplay == 5
\* largest height / width of a manually supplied grid (a walled room)
MaxRoom == 5
\* on_save_click is not taken once the step counter has passed this value
MaxSaveStep == 3
\* the largest absolute value of a height or width argument under validation
MaxInput == 30

(* ------------------------- program constants --------------------------- *)

WALL_BLOCK == -1
UNEXPLORED_BLOCK == 0
PROCRASTINATED_BLOCK == 1
EXPLORED_BLOCK == 2
BOT_BLOCK == 3

ACTIVE_STATUS == 1
WAITING_STATUS == 0

\* the fallback of set_matrix_randomly for a dimension below MIN_SIZE
DEFAULT_SIZE == 25
MIN_SIZE == 2
\* the pool size setup_simulation falls back to, and its parameter default
DEFAULT_BOT_NUMBER == 5

\* Bot.__position of a waiting bot, (None, None)
NoPosition == << >>

VARIABLES
    pc,            \* where the manager is: "init", "carving", "idle", "active", "resetting", "crashed"
    ready,         \* ExploreManager.ready
    step,          \* ExploreManager.step
    height,        \* Maze.height (0 while there is no matrix)
    width,         \* Maze.width
    matrix,        \* Maze.__matrix
    current_point, \* set_matrix_randomly: current_point
    visit_set,     \* set_matrix_randomly: visit_set
    history_list,  \* set_matrix_randomly: history_list
    bot_list,      \* ExploreManager.bot_list
    task_list,     \* ExploreManager.task_list
    active_bots,   \* exploring_step: the part of the active_bots snapshot still to be iterated
    trace,         \* history: the state at setup and after the first rounds since the last setup
    origTrace,     \* history: the trace of the run that the last reset ended
    lastDrain,     \* history: the waiting bots and the task list the last waiting-bot loop started from
    setupArgs,     \* history: bot_number and starting_point of the last setup_simulation
    taskLog,       \* history: the coordinates appended to / popped from task_list since the last setup
    outcome,       \* how the last call on a manager that is not ready ended
    dimArgs        \* history: the height and width arguments under validation

vars == <<pc, ready, step, height, width, matrix, current_point, visit_set,
          history_list, bot_list, task_list, active_bots, trace, origTrace, lastDrain,
          setupArgs, taskLog, outcome, dimArgs>>

genVars == <<current_point, visit_set, history_list>>

(* ------------------------------ the maze ------------------------------- *)

Odd(n) == n % 2 # 0

\* NormDim with the parity test inverted
MutNormDim(d) ==
    LET d1 == IF d < MIN_SIZE THEN DEFAULT_SIZE ELSE d
    IN  IF d1 % 2 = 1 THEN d1 + 1 ELSE d1

\* set_matrix_randomly, validation of one dimension
NormDim(d) ==
    LET d1 == IF d < MIN_SIZE THEN DEFAULT_SIZE ELSE d
    IN  IF d1 % 2 = 0 THEN d1 + 1 ELSE d1

Cells(h, w) == (0 .. h - 1) \X (0 .. w - 1)

\* the carve-eligible cells: odd row and odd column
Eligible(h, w) == {p \in Cells(h, w) : Odd(p[1]) /\ Odd(p[2])}

\* set_matrix_randomly, the initial template
Template(h, w) ==
    [p \in Cells(h, w) |->
        IF Odd(p[1]) /\ Odd(p[2]) THEN UNEXPLORED_BLOCK ELSE WALL_BLOCK]

\* the loop condition of the carving loop
CarveCond == Cardinality(visit_set) < (width \div 2) * (height \div 2)

\* the neighbours list built in one iteration, in the order it is appended to
Neighbours(cur, visited) ==
    LET up    == IF cur[1] # 1 /\ <<cur[1] - 2, cur[2]>> \notin visited
                 THEN << <<cur[1] - 2, cur[2]>> >> ELSE << >>
        down  == IF cur[1] # height - 2 /\ <<cur[1] + 2, cur[2]>> \notin visited
                 THEN << <<cur[1] + 2, cur[2]>> >> ELSE << >>
        left  == IF cur[2] # 1 /\ <<cur[1], cur[2] - 2>> \notin visited
                 THEN << <<cur[1], cur[2] - 2>> >> ELSE << >>
        right == IF cur[2] # width - 2 /\ <<cur[1], cur[2] + 2>> \notin visited
                 THEN << <<cur[1], cur[2] + 2>> >> ELSE << >>
    IN  up \o down \o left \o right

\* Between with the halving bound to the second operand only
MutBetween(a, b) == <<a[1] + b[1] \div 2, a[2] + b[2] \div 2>>

\* the cell between current_point and next_point
Between(a, b) == <<(a[1] + b[1]) \div 2, (a[2] + b[2]) \div 2>>

\* Maze.change_block
ChangeBlock(m, coordinates, new_block) == [m EXCEPT ![coordinates] = new_block]

Range(s) == {s[i] : i \in 1 .. Len(s)}

(* ---------------------------- construction ----------------------------- *)

Constructed ==
    /\ pc = "init"
    /\ ready = FALSE
    /\ step = 0
    /\ height = 0
    /\ width = 0
    /\ matrix = << >>
    /\ current_point = <<1, 1>>
    /\ visit_set = {}
    /\ history_list = << >>
    /\ bot_list = << >>
    /\ task_list = << >>
    /\ active_bots = << >>
    /\ trace = << >>
    /\ origTrace = << >>
    /\ lastDrain = [waiting |-> << >>, tasks |-> << >>]
    /\ setupArgs = << >>
    /\ taskLog = [appended |-> << >>, popped |-> << >>]
    /\ outcome = "none"

\* the state after construction, with no set_matrix_randomly call under way
Init ==
    /\ Constructed
    /\ dimArgs = << >>

(* --------------------------- setup_simulation -------------------------- *)

\* setup_simulation up to the start of the carving loop of set_matrix_randomly
BeginGenerate(h, w) ==
    /\ height' = NormDim(h)
    /\ width' = NormDim(w)
    /\ matrix' = Template(NormDim(h), NormDim(w))
    /\ current_point' = <<1, 1>>
    /\ visit_set' = {}
    /\ history_list' = << >>
    /\ pc' = "carving"
    /\ outcome' = "none"
    /\ UNCHANGED <<ready, step, bot_list, task_list, active_bots, trace, origTrace,
                   lastDrain, setupArgs, taskLog, dimArgs>>

\* the first update_data of a fresh manager (a later one overwrites every field
\* before reading it, and so continues from the same carving states)
SetupBegin ==
    /\ pc = "init"
    /\ \E h \in MIN_SIZE .. MaxDim, w \in MIN_SIZE .. MaxDim : BeginGenerate(h, w)

\* one iteration of the carving loop
CarveStep ==
    /\ pc = "carving"
    /\ CarveCond
    /\ LET visited == visit_set \cup {current_point}
           neighbours == Neighbours(current_point, visited)
       IN  /\ visit_set' = visited
           /\ IF Len(neighbours) = 0
              THEN IF Len(history_list) = 0
                   THEN \* history_list.pop() raises IndexError
                        /\ pc' = "crashed"
                        /\ UNCHANGED <<matrix, current_point, history_list>>
                   ELSE /\ current_point' = history_list[Len(history_list)]
                        /\ history_list' = SubSeq(history_list, 1, Len(history_list) - 1)
                        /\ UNCHANGED <<matrix, pc>>
              ELSE /\ history_list' = Append(history_list, current_point)
                   /\ \E next_point \in Range(neighbours) :
                        /\ matrix' = ChangeBlock(matrix, Between(current_point, next_point),
                                                 UNEXPLORED_BLOCK)
                        /\ current_point' = next_point
                   /\ UNCHANGED pc
    /\ UNCHANGED <<ready, step, height, width, bot_list, task_list, active_bots,
                   trace, origTrace, lastDrain, setupArgs, taskLog, outcome, dimArgs>>

\* NewBots falling back to a single bot
MutNewBots(bot_number) ==
    LET n == IF bot_number < 1 THEN 1 ELSE bot_number
    IN  [i \in 1 .. n |-> [status |-> WAITING_STATUS, position |-> NoPosition]]

\* the bots of setup_simulation, before the first one is activated
NewBots(bot_number) ==
    LET n == IF bot_number < 1 THEN DEFAULT_BOT_NUMBER ELSE bot_number
    IN  [i \in 1 .. n |-> [status |-> WAITING_STATUS, position |-> NoPosition]]

\* Bot.activate
Activate(bot, drop_position) == [status |-> ACTIVE_STATUS, position |-> drop_position]

\* Deactivate keeping the position of the bot
MutDeactivate(bot) == [status |-> WAITING_STATUS, position |-> bot.position]

\* Bot.deactivate
Deactivate(bot) == [status |-> WAITING_STATUS, position |-> NoPosition]

\* what a round leaves behind: the grid, the pool and the task list
Snapshot(m, bots, tasks) == [matrix |-> m, bot_list |-> bots, task_list |-> tasks]

\* setup_simulation after the maze is installed: pool, task list, first bot
FinishSetup(m, bot_number, starting_point) ==
    LET bots == [NewBots(bot_number) EXCEPT ![1] = Activate(@, starting_point)]
        m1 == ChangeBlock(m, starting_point, BOT_BLOCK)
    IN  /\ matrix' = m1
        /\ bot_list' = bots
        /\ task_list' = << >>
        /\ step' = 1
        /\ ready' = TRUE
        /\ active_bots' = << >>
        /\ trace' = << Snapshot(m1, bots, << >>) >>
        /\ lastDrain' = [waiting |-> << >>, tasks |-> << >>]
        /\ setupArgs' = [bot_number |-> bot_number, starting_point |-> starting_point]
        /\ taskLog' = [appended |-> << >>, popped |-> << >>]
        /\ outcome' = "none"
        /\ pc' = "idle"

\* setup_simulation once the carving loop has ended
SetupFinish ==
    /\ pc = "carving"
    /\ ~CarveCond
    /\ \E bot_number \in 0 .. MaxBots, starting_point \in Eligible(height, width) :
          FinishSetup(matrix, bot_number, starting_point)
    /\ origTrace' = << >>
    /\ UNCHANGED <<height, width, genVars, dimArgs>>

\* a manually supplied grid: a room, Wall on its border and Unexplored inside
Room(h, w) ==
    [p \in Cells(h, w) |->
        IF p[1] \in {0, h - 1} \/ p[2] \in {0, w - 1} THEN WALL_BLOCK ELSE UNEXPLORED_BLOCK]

\* setup_simulation with a manual_matrix: set_matrix_manually instead of the carving
ManualSetup ==
    /\ pc = "init"
    /\ \E h \in 3 .. MaxRoom, w \in 3 .. MaxRoom, bot_number \in 0 .. MaxBots :
         \E starting_point \in (1 .. h - 2) \X (1 .. w - 2) :
            /\ height' = h
            /\ width' = w
            /\ FinishSetup(Room(h, w), bot_number, starting_point)
    /\ origTrace' = << >>
    /\ UNCHANGED <<genVars, dimArgs>>

(* ------------------------------ progress ------------------------------- *)

\* ExploredNum counting the cells a bot stands on as well
MutExploredNum(m) == Cardinality({p \in DOMAIN m : m[p] >= EXPLORED_BLOCK})

NotWallNum(m) == Cardinality({p \in DOMAIN m : m[p] # WALL_BLOCK})

ExploredNum(m) == Cardinality({p \in DOMAIN m : m[p] = EXPLORED_BLOCK})

\* ProgressIsOne dividing by the size of the grid
MutProgressIsOne(m) == ExploredNum(m) = Cardinality(DOMAIN m)

\* get_progress() == 1: the quotient of two counts is 1 exactly when they are equal
ProgressIsOne(m) == ExploredNum(m) = NotWallNum(m)

(* ---------------------------- exploring_step --------------------------- *)

\* get_active_bots / get_waiting_bots: the pool indices with the status, in pool order
RECURSIVE BotsWithStatus(_, _, _)
BotsWithStatus(bots, status, i) ==
    IF i > Len(bots) THEN << >>
    ELSE (IF bots[i].status = status THEN <<i>> ELSE << >>)
         \o BotsWithStatus(bots, status, i + 1)

GetActiveBots(bots) == BotsWithStatus(bots, ACTIVE_STATUS, 1)

\* GetWaitingBots filtering on the active status
MutGetWaitingBots(bots) == BotsWithStatus(bots, ACTIVE_STATUS, 1)

GetWaitingBots(bots) == BotsWithStatus(bots, WAITING_STATUS, 1)

\* an index of a numpy axis of length n: negative indices count from the end
IndexOk(i, n) == -n <= i /\ i < n

WrapIndex(i, n) == IF i < 0 THEN i + n ELSE i

CoordOk(p) == IndexOk(p[1], height) /\ IndexOk(p[2], width)

Wrap(p) == <<WrapIndex(p[1], height), WrapIndex(p[2], width)>>

\* IsFree with <= for ==: a Wall block counts as free
MutIsFreeWall(block) == block <= UNEXPLORED_BLOCK

\* IsFree accepting every block that is not a wall
MutIsFree(block) == block # WALL_BLOCK

\* the test every neighbour read of the active-bot loop makes
IsFree(block) == block = UNEXPLORED_BLOCK

\* Directions with left read before down
MutDirections == << <<-1, 0>>, <<0, -1>>, <<1, 0>>, <<0, 1>> >>

\* the four neighbour offsets in the order exploring_step reads them
Directions == << <<-1, 0>>, <<1, 0>>, <<0, -1>>, <<0, 1>> >>

\* VisitNeighbour marking a surplus neighbour without appending it to the task list
MutVisitNeighbour(acc, bot_position, d) ==
    LET target == <<bot_position[1] + d[1], bot_position[2] + d[2]>>
    IN  IF acc.failed THEN acc
        ELSE IF ~CoordOk(target) THEN [acc EXCEPT !.failed = TRUE]
        ELSE IF ~IsFree(acc.m[Wrap(target)]) THEN acc
        ELSE IF ~acc.got_task
             THEN [acc EXCEPT !.got_task = TRUE,
                              !.position = target,
                              !.m = ChangeBlock(acc.m, Wrap(target), BOT_BLOCK)]
             ELSE [acc EXCEPT !.m = ChangeBlock(acc.m, Wrap(target), PROCRASTINATED_BLOCK)]

\* VisitNeighbour passing every free neighbour once the bot has moved
MutVisitNoDefer(acc, bot_position, d) ==
    LET target == <<bot_position[1] + d[1], bot_position[2] + d[2]>>
    IN  IF acc.failed THEN acc
        ELSE IF ~CoordOk(target) THEN [acc EXCEPT !.failed = TRUE]
        ELSE IF ~IsFree(acc.m[Wrap(target)]) THEN acc
        ELSE IF ~acc.got_task
             THEN [acc EXCEPT !.got_task = TRUE,
                              !.position = target,
                              !.m = ChangeBlock(acc.m, Wrap(target), BOT_BLOCK)]
             ELSE acc

\* the block of one neighbour of bot_position: move there, defer it, or pass
VisitNeighbour(acc, bot_position, d) ==
    LET target == <<bot_position[1] + d[1], bot_position[2] + d[2]>>
    IN  IF acc.failed THEN acc
        ELSE IF ~CoordOk(target) THEN [acc EXCEPT !.failed = TRUE]
        ELSE IF ~IsFree(acc.m[Wrap(target)]) THEN acc
        ELSE IF ~acc.got_task
             THEN [acc EXCEPT !.got_task = TRUE,
                              !.position = target,
                              !.m = ChangeBlock(acc.m, Wrap(target), BOT_BLOCK)]
             ELSE [acc EXCEPT !.tasks = Append(acc.tasks, target),
                              !.m = ChangeBlock(acc.m, Wrap(target), PROCRASTINATED_BLOCK)]

\* BotBody leaving the cell of the bot Unexplored instead of Explored
MutBotBody(m, tasks, bot_position) ==
    LET a0 == [m |-> ChangeBlock(m, Wrap(bot_position), UNEXPLORED_BLOCK),
               tasks |-> tasks, position |-> bot_position,
               got_task |-> FALSE, failed |-> FALSE]
        a1 == VisitNeighbour(a0, bot_position, Directions[1])
        a2 == VisitNeighbour(a1, bot_position, Directions[2])
        a3 == VisitNeighbour(a2, bot_position, Directions[3])
    IN  VisitNeighbour(a3, bot_position, Directions[4])

\* the body of the active-bot loop for one bot standing at bot_position
BotBody(m, tasks, bot_position) ==
    LET a0 == [m |-> ChangeBlock(m, Wrap(bot_position), EXPLORED_BLOCK),
               tasks |-> tasks, position |-> bot_position,
               got_task |-> FALSE, failed |-> FALSE]
        a1 == VisitNeighbour(a0, bot_position, Directions[1])
        a2 == VisitNeighbour(a1, bot_position, Directions[2])
        a3 == VisitNeighbour(a2, bot_position, Directions[3])
    IN  VisitNeighbour(a3, bot_position, Directions[4])

\* DrainTasks popping the last task instead of the first
RECURSIVE MutDrainTasks(_, _)
MutDrainTasks(acc, waiting) ==
    IF Len(waiting) = 0 \/ Len(acc.tasks) = 0 THEN acc
    ELSE LET task == acc.tasks[Len(acc.tasks)]
             b == Head(waiting)
         IN  MutDrainTasks([tasks |-> SubSeq(acc.tasks, 1, Len(acc.tasks) - 1),
                            bots |-> [acc.bots EXCEPT ![b] = Activate(@, task)],
                            m |-> ChangeBlock(acc.m, Wrap(task), BOT_BLOCK)],
                           Tail(waiting))

\* DrainTasks without the change_block of the activated bot
RECURSIVE MutDrainNoMark(_, _)
MutDrainNoMark(acc, waiting) ==
    IF Len(waiting) = 0 \/ Len(acc.tasks) = 0 THEN acc
    ELSE LET task == Head(acc.tasks)
             b == Head(waiting)
         IN  MutDrainNoMark([tasks |-> Tail(acc.tasks),
                             bots |-> [acc.bots EXCEPT ![b] = Activate(@, task)],
                             m |-> acc.m],
                            Tail(waiting))

\* DrainTasks leaving the loop after the first activation
MutDrainOne(acc, waiting) ==
    IF Len(waiting) = 0 \/ Len(acc.tasks) = 0 THEN acc
    ELSE LET task == Head(acc.tasks)
             b == Head(waiting)
         IN  [tasks |-> Tail(acc.tasks),
              bots |-> [acc.bots EXCEPT ![b] = Activate(@, task)],
              m |-> ChangeBlock(acc.m, Wrap(task), BOT_BLOCK)]

\* the waiting-bot loop: each waiting bot pops the head of the task list
RECURSIVE DrainTasks(_, _)
DrainTasks(acc, waiting) ==
    IF Len(waiting) = 0 \/ Len(acc.tasks) = 0 THEN acc
    ELSE LET task == Head(acc.tasks)
             b == Head(waiting)
         IN  DrainTasks([tasks |-> Tail(acc.tasks),
                         bots |-> [acc.bots EXCEPT ![b] = Activate(@, task)],
                         m |-> ChangeBlock(acc.m, Wrap(task), BOT_BLOCK)],
                        Tail(waiting))

\* on_step_click on a manager that is not ready: the warning branch
StepClickNotReady ==
    /\ pc = "init"
    /\ ~ready
    /\ outcome' = "NotReady"
    /\ UNCHANGED <<pc, ready, step, height, width, matrix, genVars, bot_list, task_list,
                   active_bots, trace, origTrace, lastDrain, setupArgs, taskLog, dimArgs>>

\* get_progress on a manager without a maze: self.maze is None, self.maze.matrix raises
GetProgressNotReady ==
    /\ pc = "init"
    /\ outcome' = "AttributeError"
    /\ UNCHANGED <<pc, ready, step, height, width, matrix, genVars, bot_list, task_list,
                   active_bots, trace, origTrace, lastDrain, setupArgs, taskLog, dimArgs>>

\* on_step_click up to the snapshot of the active bots
StepClick ==
    /\ pc = "idle"
    /\ step < MaxStep
    /\ IF ProgressIsOne(matrix)
       THEN UNCHANGED vars
       ELSE /\ active_bots' = GetActiveBots(bot_list)
            /\ pc' = "active"
            /\ UNCHANGED <<ready, step, height, width, matrix, genVars, bot_list,
                           task_list, trace, origTrace, lastDrain, setupArgs, taskLog,
                           outcome, dimArgs>>

\* one iteration of the active-bot loop
BotTurn ==
    /\ pc = "active"
    /\ Len(active_bots) > 0
    /\ LET b == Head(active_bots)
           r == BotBody(matrix, task_list, bot_list[b].position)
       IN  /\ matrix' = r.m
           /\ task_list' = r.tasks
           /\ bot_list' = [bot_list EXCEPT ![b] =
                             IF r.failed \/ r.got_task
                             THEN [@ EXCEPT !.position = r.position]
                             ELSE Deactivate(@)]
           /\ pc' = IF r.failed THEN "crashed" ELSE "active"
           /\ active_bots' = Tail(active_bots)
           /\ taskLog' = [taskLog EXCEPT !.appended =
                             @ \o SubSeq(r.tasks, Len(task_list) + 1, Len(r.tasks))]
    /\ UNCHANGED <<ready, step, height, width, genVars, trace, origTrace, lastDrain,
                   setupArgs, outcome, dimArgs>>

\* the waiting-bot loop and the end of exploring_step
WaitingPhase ==
    /\ pc = "active"
    /\ Len(active_bots) = 0
    /\ LET waiting_bots == GetWaitingBots(bot_list)
           r == DrainTasks([tasks |-> task_list, bots |-> bot_list, m |-> matrix],
                           waiting_bots)
       IN  /\ lastDrain' = [waiting |-> waiting_bots, tasks |-> task_list]
           /\ matrix' = r.m
           /\ bot_list' = r.bots
           /\ task_list' = r.tasks
           /\ trace' = IF Len(trace) <= MaxReplay
                       THEN Append(trace, Snapshot(r.m, r.bots, r.tasks))
                       ELSE trace
           /\ taskLog' = [taskLog EXCEPT !.popped =
                             @ \o SubSeq(task_list, 1, Len(task_list) - Len(r.tasks))]
    /\ step' = step + 1
    /\ pc' = "idle"
    /\ UNCHANGED <<ready, height, width, genVars, active_bots, origTrace, setupArgs,
                   outcome, dimArgs>>

(* ---------------------------- on_reset_click --------------------------- *)

\* MazeReset clearing the explored cells only
MutMazeReset(m) ==
    [p \in DOMAIN m |-> IF m[p] = EXPLORED_BLOCK THEN UNEXPLORED_BLOCK ELSE m[p]]

\* MazeReset clearing every cell, the Wall cells included
MutMazeResetAll(m) == [p \in DOMAIN m |-> UNEXPLORED_BLOCK]

\* Maze.reset
MazeReset(m) ==
    [p \in DOMAIN m |-> IF m[p] # WALL_BLOCK THEN UNEXPLORED_BLOCK ELSE m[p]]

\* on_reset_click: self.maze.reset()
ResetGrid ==
    /\ pc = "idle"
    /\ matrix' = MazeReset(matrix)
    /\ origTrace' = trace
    /\ trace' = << >>
    /\ pc' = "resetting"
    /\ UNCHANGED <<ready, step, height, width, genVars, bot_list, task_list, active_bots,
                   lastDrain, setupArgs, taskLog, outcome, dimArgs>>

\* on_reset_click: self.setup_simulation(manual_matrix=self.maze.matrix)
ResetSetup ==
    /\ pc = "resetting"
    /\ FinishSetup(matrix, DEFAULT_BOT_NUMBER, <<1, 1>>)
    /\ UNCHANGED <<height, width, genVars, origTrace, dimArgs>>

(* ---------------------------- on_save_click ---------------------------- *)

\* the loop of on_save_click: save_matrix is the maze's own array, not a copy,
\* so each assignment to save_matrix is an assignment to the live grid
SaveLoop(m) ==
    [p \in DOMAIN m |-> IF m[p] = WALL_BLOCK THEN WALL_BLOCK ELSE UNEXPLORED_BLOCK]

\* on_save_click: a warning without a maze, nothing when the file dialog is
\* cancelled, else the loop over the grid and the dump
SaveClick ==
    /\ pc \in {"init", "idle"}
    /\ step <= MaxSaveStep
    /\ \E chosen \in BOOLEAN :
          matrix' = IF pc = "init" \/ ~chosen THEN matrix ELSE SaveLoop(matrix)
    /\ UNCHANGED <<pc, ready, step, height, width, genVars, bot_list, task_list,
                   active_bots, trace, origTrace, lastDrain, setupArgs, taskLog,
                   outcome, dimArgs>>

(* --------------------------- specifications ---------------------------- *)

Next ==
    \/ SetupBegin
    \/ CarveStep
    \/ SetupFinish
    \/ StepClick
    \/ BotTurn
    \/ WaitingPhase
    \/ ResetGrid
    \/ ResetSetup
    \/ StepClickNotReady
    \/ GetProgressNotReady

\* runs on generated mazes
Spec == Init /\ [][Next]_vars

\* runs on generated mazes and on manually supplied rooms
AnyNext == Next \/ ManualSetup

AnySpec == Init /\ [][AnyNext]_vars

\* a run that is only stepped after its setup
RunNext ==
    \/ SetupBegin
    \/ CarveStep
    \/ SetupFinish
    \/ StepClick
    \/ BotTurn
    \/ WaitingPhase

\* the step button is pressed again and again
LiveSpec ==
    /\ Init
    /\ [][RunNext]_vars
    /\ WF_vars(StepClick)
    /\ WF_vars(BotTurn)
    /\ WF_vars(WaitingPhase)

\* the arguments of set_matrix_randomly, any pair of integers up to MaxInput in size
NormInit ==
    /\ Constructed
    /\ \E h \in -MaxInput .. MaxInput, w \in -MaxInput .. MaxInput :
          dimArgs = <<h, w>>

\* set_matrix_randomly, the validation of height and width
Validate ==
    /\ pc = "init"
    /\ dimArgs # << >>
    /\ height' = NormDim(dimArgs[1])
    /\ width' = NormDim(dimArgs[2])
    /\ pc' = "validated"
    /\ UNCHANGED <<ready, step, matrix, genVars, bot_list, task_list, active_bots, trace,
                   origTrace, lastDrain, setupArgs, taskLog, outcome, dimArgs>>

\* the validation alone, over its arguments
NormSpec == NormInit /\ [][Validate]_vars

\* runs on generated mazes and walled rooms in which the grid may be saved
\* between rounds
SaveNext ==
    \/ RunNext
    \/ ManualSetup
    \/ SaveClick

SaveSpec == Init /\ [][SaveNext]_vars

(* ------------------------- notions of the claims ----------------------- *)

\* the carving loop has ended and setup_simulation has not yet touched the grid
Generated == pc = "carving" /\ ~CarveCond

\* a run has been set up and no handler other than a step is under way
AfterSetup == pc \in {"idle", "active"}

AllWaiting == \A i \in DOMAIN bot_list : bot_list[i].status = WAITING_STATUS

CellsOf(m, block) == {p \in DOMAIN m : m[p] = block}

Up(p) == <<p[1] - 1, p[2]>>
Down(p) == <<p[1] + 1, p[2]>>
Left(p) == <<p[1], p[2] - 1>>
Right(p) == <<p[1], p[2] + 1>>

Adjacent(p) == {Up(p), Down(p), Left(p), Right(p)}

\* the cells reachable from the cells of seen through Unexplored cells
RECURSIVE ReachSet(_, _)
ReachSet(m, seen) ==
    LET more == {q \in CellsOf(m, UNEXPLORED_BLOCK) : \E p \in seen : q \in Adjacent(p)}
    IN  IF more \subseteq seen THEN seen ELSE ReachSet(m, seen \cup more)

\* the carved passages: the open cells that are not carve-eligible
Passages(m) == {p \in DOMAIN m : m[p] # WALL_BLOCK /\ ~(Odd(p[1]) /\ Odd(p[2]))}

RunComplete ==
    /\ pc = "idle"
    /\ AllWaiting
    /\ task_list = << >>
    /\ ProgressIsOne(matrix)

(* -------------------------------- claims ------------------------------- *)

\* C1: on every generated maze, for every pool size, a run that is stepped again
\* and again reaches a state with no active bot, an empty task list and
\* progress 1 (checked for every carve-eligible start cell, (1,1) among them).
C1Terminates == (pc = "idle") ~> RunComplete

C1Witness ==
    /\ RunComplete
    /\ height = 7 /\ width = 7
    /\ Len(bot_list) = 2
    /\ trace[1].bot_list[1].position = <<1, 1>>

\* C2: at the end of every round on a generated maze, progress is 1 exactly when
\* no bot is active and the task list is empty.
C2CompleteIffIdle ==
    pc = "idle" => (ProgressIsOne(matrix) <=> (AllWaiting /\ task_list = << >>))

C2Witness ==
    /\ pc = "idle"
    /\ step >= 4
    /\ ProgressIsOne(matrix)
    /\ AllWaiting /\ task_list = << >>
    /\ Len(bot_list) = 3

\* C3: after generation every Unexplored cell is reachable from (1,1) through
\* Unexplored cells, every carved passage lies between two carve-eligible cells,
\* and there are exactly (height div 2) * (width div 2) - 1 passages: the carved
\* graph is connected with one edge fewer than it has nodes, a tree.
C3PerfectMaze ==
    Generated =>
        /\ Eligible(height, width) \subseteq CellsOf(matrix, UNEXPLORED_BLOCK)
        /\ CellsOf(matrix, UNEXPLORED_BLOCK) = ReachSet(matrix, {<<1, 1>>})
        /\ \A p \in Passages(matrix) :
              /\ matrix[p] = UNEXPLORED_BLOCK
              /\ Odd(p[1]) # Odd(p[2])
              /\ p[1] \in 1 .. height - 2 /\ p[2] \in 1 .. width - 2
        /\ Cardinality(Passages(matrix)) = (height \div 2) * (width \div 2) - 1

C3Witness ==
    /\ Generated
    /\ height = 7 /\ width = 7
    /\ matrix[<<2, 3>>] = UNEXPLORED_BLOCK
    /\ matrix[<<3, 2>>] = WALL_BLOCK

\* C4: the carving loop never backtracks with an empty history stack, and when
\* it ends the visited set is the set of all carve-eligible cells.
C4CarvingCompletes ==
    /\ pc # "crashed"
    /\ (pc = "carving" /\ CarveCond
          /\ Len(Neighbours(current_point, visit_set \cup {current_point})) = 0)
       => Len(history_list) > 0
    /\ Generated => visit_set = Eligible(height, width)

\* C5: a bot taking its turn with an Unexplored neighbour ends on the first
\* Unexplored neighbour in the order up, down, left, right, which becomes
\* Occupied; the later Unexplored neighbours are appended to the task list in
\* that order and become Deferred.
C5Priority ==
    [][(pc = "active" /\ Len(active_bots) > 0) =>
        LET b == Head(active_bots)
            p == bot_list[b].position
            free == SelectSeq(<<Up(p), Down(p), Left(p), Right(p)>>,
                              LAMBDA t : matrix[t] = UNEXPLORED_BLOCK)
        IN  Len(free) > 0 =>
              /\ bot_list'[b] = [status |-> ACTIVE_STATUS, position |-> free[1]]
              /\ matrix'[free[1]] = BOT_BLOCK
              /\ task_list' = task_list \o Tail(free)
              /\ \A i \in 2 .. Len(free) : matrix'[free[i]] = PROCRASTINATED_BLOCK
              /\ matrix'[p] = EXPLORED_BLOCK]_vars

\* a bot has just moved up from p and queued down, left and right of p
C5Witness ==
    /\ pc = "active"
    /\ \E b \in DOMAIN bot_list, p \in DOMAIN matrix :
          /\ bot_list[b] = [status |-> ACTIVE_STATUS, position |-> Up(p)]
          /\ matrix[p] = EXPLORED_BLOCK
          /\ matrix[Up(p)] = BOT_BLOCK
          /\ Len(task_list) >= 3
          /\ SubSeq(task_list, Len(task_list) - 2, Len(task_list))
                = <<Down(p), Left(p), Right(p)>>
          /\ \A t \in {Down(p), Left(p), Right(p)} : matrix[t] = PROCRASTINATED_BLOCK

\* C6: the waiting-bot loop gives the k-th waiting bot (in pool order) the k-th
\* coordinate of the task list and marks that cell Occupied; the coordinates
\* beyond the number of waiting bots stay queued in their order, and the
\* waiting bots beyond the number of coordinates stay as they are.
C6QueueDrain ==
    [][(pc = "active" /\ Len(active_bots) = 0) =>
        LET W == SelectSeq([i \in 1 .. Len(bot_list) |-> i],
                           LAMBDA i : bot_list[i].status = WAITING_STATUS)
            k == IF Len(W) < Len(task_list) THEN Len(W) ELSE Len(task_list)
        IN  /\ \A i \in 1 .. k :
                  /\ bot_list'[W[i]] = [status |-> ACTIVE_STATUS, position |-> task_list[i]]
                  /\ matrix'[task_list[i]] = BOT_BLOCK
            /\ task_list' = SubSeq(task_list, k + 1, Len(task_list))
            /\ \A i \in 1 .. Len(bot_list) :
                  (\A j \in 1 .. k : W[j] # i) => bot_list'[i] = bot_list[i]]_vars

\* the last waiting-bot loop found two waiting bots and three queued coordinates
C6Witness ==
    /\ pc = "idle"
    /\ Len(lastDrain.waiting) = 2
    /\ Len(lastDrain.tasks) = 3
    /\ \A i \in 1 .. 2 :
          bot_list[lastDrain.waiting[i]]
             = [status |-> ACTIVE_STATUS, position |-> lastDrain.tasks[i]]
    /\ task_list = << lastDrain.tasks[3] >>

\* C7: no step of a round lowers progress: the number of Explored cells does
\* not shrink and the number of non-Wall cells does not change.
C7ProgressMonotone ==
    [][(pc = "active" \/ pc' = "active") =>
        /\ ExploredNum(matrix') >= ExploredNum(matrix)
        /\ NotWallNum(matrix') = NotWallNum(matrix)
        /\ ExploredNum(matrix') * NotWallNum(matrix)
              >= ExploredNum(matrix) * NotWallNum(matrix')]_vars

C7Witness ==
    /\ pc = "idle"
    /\ Len(trace) >= 3
    /\ ExploredNum(trace[2].matrix) < ExploredNum(trace[3].matrix)
    /\ ExploredNum(trace[3].matrix) <= ExploredNum(matrix)

\* C8 as stated: after setup, progress is 1 exactly when no cell is Unexplored
\* or Deferred.
C8Original ==
    AfterSetup =>
        (ProgressIsOne(matrix) <=>
            \A p \in DOMAIN matrix : matrix[p] \notin {UNEXPLORED_BLOCK, PROCRASTINATED_BLOCK})

\* C8 as amended: after setup, progress is 1 exactly when no cell is Unexplored,
\* Deferred or Occupied.
C8Amended ==
    AfterSetup =>
        (ProgressIsOne(matrix) <=>
            \A p \in DOMAIN matrix :
                matrix[p] \notin {UNEXPLORED_BLOCK, PROCRASTINATED_BLOCK, BOT_BLOCK})

\* a round has ended with every open cell Explored
C8Witness ==
    /\ pc = "idle"
    /\ ProgressIsOne(matrix)
    /\ height = 5 /\ width = 7
    /\ \A p \in DOMAIN matrix :
          matrix[p] \notin {UNEXPLORED_BLOCK, PROCRASTINATED_BLOCK, BOT_BLOCK}
    /\ ExploredNum(matrix) > 1

\* C9: after a reset of a run that started at (1,1), the rounds replay the
\* rounds of that run: the grid, the pool and the task list at setup and after
\* each round are those the original run had.
C9ReplaySame ==
    (/\ pc = "idle"
     /\ Len(origTrace) > 0
     /\ origTrace[1].bot_list[1].position = <<1, 1>>)
    => \A k \in 1 .. Len(trace) : k <= Len(origTrace) => trace[k] = origTrace[k]

\* C10: Maze.reset turns every non-Wall cell into Unexplored and leaves the
\* Wall cells and the dimensions of the grid as they are.
C10ResetGrid ==
    [][(pc = "idle" /\ pc' = "resetting") =>
        /\ DOMAIN matrix' = DOMAIN matrix
        /\ height' = height /\ width' = width
        /\ \A p \in DOMAIN matrix :
              /\ matrix[p] = WALL_BLOCK => matrix'[p] = WALL_BLOCK
              /\ matrix[p] # WALL_BLOCK => matrix'[p] = UNEXPLORED_BLOCK]_vars

\* the grid has just been reset from a round that left cells of all four open kinds
C10Witness ==
    /\ pc = "resetting"
    /\ step = Len(origTrace)
    /\ LET before == origTrace[Len(origTrace)].matrix
       IN  /\ \A block \in {UNEXPLORED_BLOCK, PROCRASTINATED_BLOCK, EXPLORED_BLOCK, BOT_BLOCK} :
                 CellsOf(before, block) # {}
           /\ \A p \in DOMAIN before :
                 matrix[p] = IF before[p] = WALL_BLOCK THEN WALL_BLOCK ELSE UNEXPLORED_BLOCK

\* C11: once a maze is generated, no setup on it, no step and no reset changes
\* which cells are Wall.
C11WallsFixed ==
    [][(Generated \/ pc \in {"idle", "active", "resetting"})
          => CellsOf(matrix', WALL_BLOCK) = CellsOf(matrix, WALL_BLOCK)]_vars

C11Witness ==
    /\ pc = "idle"
    /\ origTrace # << >>
    /\ Len(trace) >= 3
    /\ height = 5 /\ width = 5
    /\ CellsOf(matrix, WALL_BLOCK) = CellsOf(origTrace[1].matrix, WALL_BLOCK)
    /\ CellsOf(matrix, EXPLORED_BLOCK) # {}

\* a position strictly inside the grid
Interior(p) == p[1] \in 1 .. height - 2 /\ p[2] \in 1 .. width - 2

\* C12: on a generated maze every active bot stands strictly inside the grid, so
\* the four neighbour reads of its turn use indexes of the grid itself, none of
\* them negative.
C12ActiveInside ==
    AfterSetup =>
        \A i \in DOMAIN bot_list :
            bot_list[i].status = ACTIVE_STATUS =>
                /\ Len(bot_list[i].position) = 2
                /\ Interior(bot_list[i].position)
                /\ Adjacent(bot_list[i].position) \subseteq DOMAIN matrix

C12Witness ==
    /\ pc = "active"
    /\ step > 1
    /\ height = 5 /\ width = 5
    /\ \E i \in DOMAIN bot_list :
          /\ bot_list[i] = [status |-> ACTIVE_STATUS, position |-> <<height - 2, width - 2>>]
          /\ active_bots # << >> /\ Head(active_bots) = i

\* no element occurs twice in the sequence
NoRepeat(s) == \A i, j \in 1 .. Len(s) : s[i] = s[j] => i = j

\* C13: over a run, no coordinate is appended to the task list twice and none is
\* popped twice; the task list never holds a coordinate twice; what was appended
\* is what was popped followed by what is still listed, and every popped
\* coordinate was handed to a bot (its cell is Occupied or, later, Explored).
C13QueueOnce ==
    AfterSetup =>
        /\ NoRepeat(taskLog.appended)
        /\ NoRepeat(taskLog.popped)
        /\ NoRepeat(task_list)
        /\ taskLog.appended = taskLog.popped \o task_list
        /\ \A i \in 1 .. Len(taskLog.popped) :
              matrix[Wrap(taskLog.popped[i])] \in {BOT_BLOCK, EXPLORED_BLOCK}

C13Witness ==
    /\ pc = "idle"
    /\ Len(taskLog.popped) >= 2
    /\ Len(task_list) >= 2
    /\ matrix[taskLog.popped[1]] = EXPLORED_BLOCK

\* C14: a bot has no position exactly when it is waiting, and an active bot's
\* position is a cell of the grid.
C14PositionIffActive ==
    \A i \in DOMAIN bot_list :
        /\ bot_list[i].position = NoPosition <=> bot_list[i].status = WAITING_STATUS
        /\ bot_list[i].status = ACTIVE_STATUS => bot_list[i].position \in DOMAIN matrix

C14Witness ==
    /\ pc = "idle"
    /\ bot_list[1] = [status |-> WAITING_STATUS, position |-> NoPosition]
    /\ trace[1].bot_list[1].status = ACTIVE_STATUS
    /\ \E i \in DOMAIN bot_list :
          /\ trace[1].bot_list[i] = [status |-> WAITING_STATUS, position |-> NoPosition]
          /\ bot_list[i].status = ACTIVE_STATUS
          /\ bot_list[i].position \in DOMAIN matrix

\* C15: when setup_simulation(bot_number = n, starting_point = s) completes, the
\* pool has n bots (5 when n < 1), the first bot is active at s, every other bot
\* is waiting without position, the task list is empty, the cell s is Occupied,
\* the step counter is 1 and the manager is ready.
C15SetupPost ==
    [][(pc \in {"init", "carving", "resetting"} /\ pc' = "idle") =>
          LET n == setupArgs'.bot_number
              s == setupArgs'.starting_point
          IN  /\ Len(bot_list') = IF n < 1 THEN DEFAULT_BOT_NUMBER ELSE n
              /\ bot_list'[1] = [status |-> ACTIVE_STATUS, position |-> s]
              /\ \A i \in 2 .. Len(bot_list') :
                    bot_list'[i] = [status |-> WAITING_STATUS, position |-> NoPosition]
              /\ task_list' = << >>
              /\ matrix'[s] = BOT_BLOCK
              /\ step' = 1
              /\ ready']_vars

C15Witness ==
    /\ pc = "idle"
    /\ step = 1
    /\ ready
    /\ origTrace = << >>
    /\ setupArgs = [bot_number |-> 0, starting_point |-> <<3, 3>>]
    /\ Len(bot_list) = DEFAULT_BOT_NUMBER
    /\ matrix[<<3, 3>>] = BOT_BLOCK

\* the run state: everything the manager holds
runState == <<ready, step, height, width, matrix, bot_list, task_list>>

\* C16: a step or a progress query on a manager that is not ready ends with the
\* NotReady outcome and leaves the run state as it was: no grid, no pool, no
\* task list, the step counter and the readiness flag unchanged.
C16NotReadyOutcome ==
    [][(~ready /\ pc = "init" /\ pc' = "init") =>
          /\ outcome' = "NotReady"
          /\ runState' = runState
          /\ matrix' = << >> /\ bot_list' = << >> /\ task_list' = << >>
          /\ ~ready']_vars

C18Normalised ==
    [][(pc = "init" /\ pc' = "validated") =>
          \A k \in {1, 2} :
              LET d == dimArgs[k]
                  r == IF k = 1 THEN height' ELSE width'
              IN  /\ Odd(r) /\ r >= 3
                  /\ d < MIN_SIZE => r = DEFAULT_SIZE
                  /\ (d >= MIN_SIZE /\ ~Odd(d)) => r = d + 1
                  /\ (d >= MIN_SIZE /\ Odd(d)) => r = d]_vars

C18Witness ==
    /\ pc = "validated"
    /\ dimArgs = <<1, 10>>
    /\ height = 25 /\ width = 11

\* the changes of one cell that a round may make, as <<before, after>>
StepEdges ==
    { <<UNEXPLORED_BLOCK, BOT_BLOCK>>, <<UNEXPLORED_BLOCK, PROCRASTINATED_BLOCK>>,
      <<PROCRASTINATED_BLOCK, BOT_BLOCK>>, <<BOT_BLOCK, EXPLORED_BLOCK>> }

\* C19: a step of a round changes a cell only from Unexplored to Occupied, from
\* Unexplored to Deferred, from Deferred to Occupied or from Occupied to
\* Explored; an Explored cell is never changed again.
C19Transitions ==
    [][pc = "active" =>
          \A p \in DOMAIN matrix :
              matrix'[p] # matrix[p] => <<matrix[p], matrix'[p]>> \in StepEdges]_vars

C19Witness ==
    /\ pc = "idle"
    /\ Len(trace) >= 4
    /\ \E p \in DOMAIN matrix :
          /\ matrix[p] = EXPLORED_BLOCK
          /\ \E i \in 1 .. Len(trace) - 2 :
                /\ trace[i].matrix[p] = UNEXPLORED_BLOCK
                /\ trace[i + 1].matrix[p] = PROCRASTINATED_BLOCK
                /\ \E j \in i + 2 .. Len(trace) : trace[j].matrix[p] = BOT_BLOCK

\* the pool indices of the active bots
ActiveBots == {i \in DOMAIN bot_list : bot_list[i].status = ACTIVE_STATUS}

\* C20: between bot turns and at every round boundary, the Occupied cells are
\* exactly the positions of the active bots, and no two active bots stand on
\* the same cell.
C20OccupiedIsActive ==
    AfterSetup =>
        /\ CellsOf(matrix, BOT_BLOCK) = {bot_list[i].position : i \in ActiveBots}
        /\ \A i, j \in ActiveBots : bot_list[i].position = bot_list[j].position => i = j

C20Witness ==
    /\ pc = "active"
    /\ Len(active_bots) = 1
    /\ Cardinality(ActiveBots) = 3
    /\ Cardinality(CellsOf(matrix, BOT_BLOCK)) = 3
    /\ CellsOf(matrix, PROCRASTINATED_BLOCK) # {}

\* C21: between bot turns and at every round boundary, the coordinates in the
\* task list are exactly the Deferred cells: every listed coordinate is Deferred
\* and every Deferred cell is listed.
C21QueueIsDeferred ==
    AfterSetup => Range(task_list) = CellsOf(matrix, PROCRASTINATED_BLOCK)

C21Witness ==
    /\ pc = "active"
    /\ Len(active_bots) >= 1
    /\ Len(taskLog.popped) >= 1
    /\ Cardinality(CellsOf(matrix, PROCRASTINATED_BLOCK)) >= 3
    /\ Range(task_list) = CellsOf(matrix, PROCRASTINATED_BLOCK)

\* the cells of the grid next to p
GridNeighbours(p) == Adjacent(p) \cap DOMAIN matrix

\* C22 as stated: at every round boundary no Explored cell has an Unexplored
\* orthogonal neighbour, and every neighbour of an Unexplored cell is Occupied,
\* Deferred or Wall.
C22Original ==
    pc = "idle" =>
        /\ \A p \in CellsOf(matrix, EXPLORED_BLOCK) :
              \A q \in GridNeighbours(p) : matrix[q] # UNEXPLORED_BLOCK
        /\ \A p \in CellsOf(matrix, UNEXPLORED_BLOCK) :
              \A q \in GridNeighbours(p) :
                  matrix[q] \in {BOT_BLOCK, PROCRASTINATED_BLOCK, WALL_BLOCK}

\* C22 amended: at every round boundary no Explored cell has an Unexplored
\* orthogonal neighbour; every neighbour of an Unexplored cell is Unexplored,
\* Occupied, Deferred or Wall.
C22Amended ==
    pc = "idle" =>
        /\ \A p \in CellsOf(matrix, EXPLORED_BLOCK) :
              \A q \in GridNeighbours(p) : matrix[q] # UNEXPLORED_BLOCK
        /\ \A p \in CellsOf(matrix, UNEXPLORED_BLOCK) :
              \A q \in GridNeighbours(p) :
                  matrix[q] \in {UNEXPLORED_BLOCK, BOT_BLOCK, PROCRASTINATED_BLOCK,
                                 WALL_BLOCK}

C22Witness ==
    /\ pc = "idle"
    /\ Cardinality(CellsOf(matrix, EXPLORED_BLOCK)) >= 3
    /\ \E p \in CellsOf(matrix, EXPLORED_BLOCK) :
          /\ \E q \in GridNeighbours(p) : matrix[q] = PROCRASTINATED_BLOCK
          /\ \E q \in GridNeighbours(p) : matrix[q] = BOT_BLOCK
    /\ \E p \in CellsOf(matrix, UNEXPLORED_BLOCK) :
          \E q \in GridNeighbours(p) : matrix[q] = UNEXPLORED_BLOCK

\* C23: at the end of every round, a non-empty task list means that every bot
\* of the pool is active; a bot deactivated at a dead end in the round is among
\* the waiting bots of the same round's waiting-bot loop.
C23NoIdleWithTask ==
    pc = "idle" =>
        (task_list # << >> =>
            \A i \in DOMAIN bot_list : bot_list[i].status = ACTIVE_STATUS)

C23Witness ==
    /\ pc = "idle"
    /\ task_list # << >>
    /\ \A i \in DOMAIN bot_list : bot_list[i].status = ACTIVE_STATUS
    /\ Len(bot_list) >= 2
    /\ step = Len(trace) /\ Len(trace) >= 2
    /\ \E i \in Range(lastDrain.waiting) :
          trace[Len(trace) - 1].bot_list[i].status = ACTIVE_STATUS

\* C24: a save at any point of a run leaves the live run state as it was: every
\* cell of the grid keeps its block, and the bots, the task list and the step
\* counter are untouched.
C24SaveKeepsState ==
    [][(pc = "idle" /\ pc' = "idle" /\ step' = step) =>
          /\ matrix' = matrix
          /\ bot_list' = bot_list
          /\ task_list' = task_list]_vars

====
